---- MODULE Spec2Model ----
(***************************************************************************)
(* A model of the legacy-completion compatibility adapter of               *)
(* src/src/index.ts: the response flattener (responsesToCompletion), the   *)
(* non-streaming entry point createCompletion with its multi-result        *)
(* strategies (_multiParallel, _multiPromptSplit) and the streaming        *)
(* translator createCompletionStream with its abort handle.                *)
(*                                                                         *)
(* Conventions.  A JavaScript string is a sequence of one-character        *)
(* strings (<<"a", "b">> is "ab").  An optional value is a sequence of     *)
(* length at most one: None is undefined (the key is absent or holds       *)
(* undefined), Some(v) is a present value.  The JavaScript null is the     *)
(* string Null; an optional field that holds null is NullOpt.  The wall    *)
(* clock (Date.now() / 1000, floored) is an input drawn from Times at      *)
(* every read.                                                             *)
(***************************************************************************)
EXTENDS Integers, Sequences, FiniteSets, TLC

VARIABLES
    \* ---- createCompletionStream: one stream --------------------------
    spc,            \* position of the stream call: "idle", "loop" (inside for await), "done"
    streamReq,      \* the legacy request the stream was created for
    fullText,       \* let fullText (index.ts:231)
    finalResponse,  \* let finalResponse (index.ts:230); None is null
    consumed,       \* the upstream events the for-await loop has read, in order
    emitted,        \* the handler invocations made so far, in order
    aborted,        \* whether the returned abort handle was invoked while the stream was in flight
    endCause,       \* how the consuming loop ended: "none", "exhausted", "threw", "crashed"
    \* ---- createCompletion: one call ----------------------------------
    opts,           \* this.opts, fixed by the constructor
    backend,        \* which backend the client talks to: names the responses it may answer with
    cpc,            \* position of the call: "idle", "awaiting", "returned", "rejected"
    legacyReq,      \* the legacy request of the call
    sent,           \* the requests handed to client.responses.create, in dispatch order
    tasks,          \* the promises of those calls, in dispatch order
    order,          \* the dispatch indices of the settled promises, in settlement order
    result,         \* the value createCompletion resolved with; None until then
    thrown,         \* what createCompletion rejected with; None until then
    \* ---- responsesToCompletion applied on its own -------------------
    flat,           \* a backend response and the results of flattening it, with their clock readings
    \* ---- the caller of createCompletionStream -----------------------
    handlers,       \* whether the call passed the handlers argument
    caller,         \* what the caller did with the value the call resolved with
    \* ---- createCompletionStream: several streams at once ------------
    calls           \* the locals of each concurrent stream call, by call

streamVars == <<spc, streamReq, fullText, finalResponse, consumed, emitted, aborted, endCause>>
complVars  == <<opts, backend, cpc, legacyReq, sent, tasks, order, result, thrown>>
flatVars   == <<flat>>
callerVars == <<handlers, caller>>
concVars   == <<calls>>
\* What a step of the one stream leaves alone, and what a step of createCompletion does.
nonStreamVars == <<complVars, flatVars, callerVars, concVars>>
nonComplVars  == <<streamVars, flatVars, callerVars, concVars>>
vars       == <<streamVars, complVars, flatVars, callerVars, concVars>>

-----------------------------------------------------------------------------
(* Bounds of the model. *)

\* The largest n a legacy request asks for.
MaxN == 3
\* The number of upstream events one stream delivers at most.
MaxEvents == 4
\* The longest response text of the prompt-split study.
MaxTextLen == 5
\* The number of upstream events each of the concurrent streams delivers at most.
MaxConcEvents == 2

-----------------------------------------------------------------------------
(* Values. *)

None == <<>>
Some(v) == <<v>>
Null == "null"
\* An optional field holding null: neither undefined (None) nor a value (Some(v)).
NullOpt == <<Null, Null>>

\* Date.now() / 1000, floored: the values a clock read may give.
Times == {101, 102}

RECURSIVE Concat(_)
\* Array.prototype.join("") of a list of strings.
Concat(ss) == IF ss = <<>> THEN <<>> ELSE Head(ss) \o Concat(Tail(ss))

\* a || b for an optional value a: b when a is absent.
OrElse(a, b) == IF a = None THEN b ELSE a[1]

-----------------------------------------------------------------------------
(* responsesToCompletion (index.ts:121-154). *)

\* (o.content || []).filter(c => c.type === "output_text").map(c => c.text)
OutputTexts(o) ==
    LET content == OrElse(o.content, <<>>)
        IsText(c) == c.type = "output_text"
        kept == SelectSeq(content, IsText)
    IN  [i \in 1..Len(kept) |-> kept[i].text]

RECURSIVE FlatMapOutputTexts(_)
\* output.flatMap(o => ...): the text segments of every output item, in order.
FlatMapOutputTexts(output) ==
    IF output = <<>> THEN <<>>
    ELSE OutputTexts(Head(output)) \o FlatMapOutputTexts(Tail(output))

\* const allText = (responsesObj.output || []).flatMap(...).join("")
AllText(responsesObj) == Concat(FlatMapOutputTexts(OrElse(responsesObj.output, <<>>)))

\* status === "completed" ? "stop" : (status_details && status_details.type) || "stop"
FinishReason(responsesObj) ==
    IF responsesObj.status = "completed" THEN "stop"
    ELSE IF responsesObj.status_details = None THEN "stop"
    ELSE OrElse(responsesObj.status_details[1].type, "stop")

\* responsesObj.usage?.<field>
UsageField(responsesObj, f) ==
    IF responsesObj.usage = None THEN None ELSE responsesObj.usage[1][f]

\* A mutation of CreatedOrNow: the creation time is always read from the clock.
CreatedAlwaysNow(responsesObj, t) == t

\* responsesObj.created || Math.floor(Date.now() / 1000); 0 is falsy.
CreatedOrNow(responsesObj, t) ==
    IF responsesObj.created = None \/ responsesObj.created = Some(0)
    THEN t ELSE responsesObj.created[1]

responsesToCompletion(responsesObj, t) ==
    [ id      |-> responsesObj.id,
      object  |-> "text_completion",
      created |-> CreatedOrNow(responsesObj, t),
      model   |-> responsesObj.model,
      choices |-> << [ text          |-> AllText(responsesObj),
                       index         |-> 0,
                       logprobs      |-> Null,
                       finish_reason |-> FinishReason(responsesObj) ] >>,
      usage   |-> [ prompt_tokens     |-> UsageField(responsesObj, "input_tokens"),
                    completion_tokens |-> UsageField(responsesObj, "output_tokens"),
                    total_tokens      |-> UsageField(responsesObj, "total_tokens") ] ]

-----------------------------------------------------------------------------
(* The upstream event stream of client.responses.stream (an external        *)
(* collaborator): the events it may deliver.                                 *)

\* The response objects a response.completed event may carry.
StreamResponses ==
    { [ id |-> "resp_1", model |-> "m1", created |-> Some(9), status |-> "completed",
        status_details |-> None,
        output |-> Some(<< [ content |-> Some(<< [type |-> "output_text", text |-> <<"z">>] >>) ] >>),
        usage |-> Some([input_tokens |-> Some(2), output_tokens |-> Some(10), total_tokens |-> Some(12)]) ],
      [ id |-> "resp_2", model |-> "m1", created |-> None, status |-> "incomplete",
        status_details |-> Some([type |-> Some(<<"max_output_tokens">>)]),
        output |-> None,
        usage |-> None ] }

\* The response a response.failed event carries, when it carries one.
FailedResponse == [ id |-> "resp_f", model |-> "m1", status |-> "failed" ]

DeltaType     == "response.output_text.delta"
TextDoneType  == "response.output_text.done"
CompletedType == "response.completed"
FailedType    == "response.failed"
ItemAddedType == "response.output_item.added"

Deltas == { <<>>, <<"a">>, <<"b">> }

DeltaEvents     == { [type |-> DeltaType, delta |-> d, item_id |-> "item_1"] : d \in Deltas }
TextDoneEvents  == { [type |-> TextDoneType] }
CompletedEvents == { [type |-> CompletedType, response |-> r] : r \in StreamResponses }
FailedEvents    == { [type |-> FailedType, response |-> Some(FailedResponse)],
                     [type |-> FailedType, response |-> None] }
\* Events the switch has no case for.
OtherEvents     == { [type |-> ItemAddedType] }

\* What the for-await throws: the abort error after an abort, a transport error otherwise.
ThrownError(wasAborted) ==
    [ error |-> IF wasAborted THEN "APIUserAbortError" ELSE "APIConnectionError" ]

StreamRequests == { [model |-> "m1", n |-> None], [model |-> "m2", n |-> Some(2)] }

-----------------------------------------------------------------------------
(* createCompletionStream (index.ts:215-306). *)

\* The chunk handed to onDelta (index.ts:244-254); const delta = event.delta || "".
DeltaChunk(event) ==
    [ id      |-> event.item_id,
      object  |-> "text_completion.chunk",
      choices |-> << [ text |-> event.delta, index |-> 0, finish_reason |-> Null ] >> ]

\* A mutation of EmitDelta: a delta event with an empty delta emits no chunk.
EmitDeltaSkipEmpty(log, event) ==
    IF event.delta = <<>> THEN log
    ELSE Append(log, [cb |-> "onDelta", arg |-> DeltaChunk(event)])

\* handlers.onDelta?.({...}) (index.ts:244)
EmitDelta(log, event) == Append(log, [cb |-> "onDelta", arg |-> DeltaChunk(event)])

\* A mutation of Accumulate: the delta replaces the text instead of extending it.
AccumulateOverwrites(text, event) == event.delta

\* fullText += delta (index.ts:243)
Accumulate(text, event) == text \o event.delta

\* event.response || event (index.ts:264)
FailurePayload(event) == OrElse(event.response, event)

\* A mutation of FinalRecord: the flattened response's own text is kept.
FinalRecordNoOverride(final, text, t) == responsesToCompletion(final, t)

\* The record handed to onDone when a completed event was recorded
\* (index.ts:271-273): legacy.choices[0].text = fullText.
FinalRecord(final, text, t) ==
    [ responsesToCompletion(final, t) EXCEPT !.choices[1].text = text ]

\* The record handed to onDone when no completed event was recorded and text
\* was accumulated (index.ts:277-289); usage: {} has no keys.
SyntheticRecord(req, text, t) ==
    [ id      |-> "unknown",
      object  |-> "text_completion",
      created |-> t,
      model   |-> req.model,
      choices |-> << [ text |-> text, index |-> 0, logprobs |-> Null, finish_reason |-> "stop" ] >>,
      usage   |-> << >> ]

\* A mutation of AfterLoop: without a completed event the synthetic record is
\* delivered whether or not text was accumulated.
AfterLoopAlwaysFinal(log, final, text, req, t) ==
    IF final # None
    THEN Append(log, [cb |-> "onDone", arg |-> FinalRecord(final[1], text, t)])
    ELSE Append(log, [cb |-> "onDone", arg |-> SyntheticRecord(req, text, t)])

\* The code after the for-await loop (index.ts:270-291).
AfterLoop(log, final, text, req, t) ==
    IF final # None
    THEN Append(log, [cb |-> "onDone", arg |-> FinalRecord(final[1], text, t)])
    ELSE IF Len(text) > 0
         THEN Append(log, [cb |-> "onDone", arg |-> SyntheticRecord(req, text, t)])
         ELSE log

\* A mutation of Caught: after reporting the error, the text accumulated so far
\* is delivered as a synthetic final record.
CaughtThenPartialText(log, err, req, text) ==
    LET reported == Append(log, [cb |-> "onError", arg |-> err])
    IN  IF Len(text) > 0
        THEN Append(reported, [cb |-> "onDone", arg |-> SyntheticRecord(req, text, 101)])
        ELSE reported

\* catch (err) { handlers.onError?.(err) } (index.ts:292-294): the error is
\* reported, the code after the loop is skipped.
Caught(log, err, req, text) == Append(log, [cb |-> "onError", arg |-> err])

\* createCompletionStream up to the return of the abort handle: the request is
\* translated, the stream is opened, the consuming loop is started.
CreateCompletionStream ==
    /\ spc = "idle"
    /\ \E req \in StreamRequests : streamReq' = req
    /\ spc' = "loop"
    /\ fullText' = <<>>
    /\ finalResponse' = None
    /\ UNCHANGED <<consumed, emitted, aborted, endCause, nonStreamVars>>

\* await this.client.responses.stream(...) rejects: the call rejects, no loop starts.
CreateCompletionStreamRejects ==
    /\ spc = "idle"
    /\ \E req \in StreamRequests : streamReq' = req
    /\ spc' = "rejected"
    /\ UNCHANGED <<fullText, finalResponse, consumed, emitted, aborted, endCause, nonStreamVars>>

\* The upstream delivers an event only while it was not aborted.
CanRead == spc = "loop" /\ ~aborted /\ Len(consumed) < MaxEvents

\* case "response.output_text.delta"
OnDelta ==
    /\ CanRead
    /\ handlers
    /\ \E event \in DeltaEvents :
          /\ consumed' = Append(consumed, event)
          /\ fullText' = Accumulate(fullText, event)
          /\ emitted' = EmitDelta(emitted, event)
    /\ UNCHANGED <<spc, streamReq, finalResponse, aborted, endCause, nonStreamVars>>

\* case "response.output_text.done": nothing
OnTextDone ==
    /\ CanRead
    /\ \E event \in TextDoneEvents : consumed' = Append(consumed, event)
    /\ UNCHANGED <<spc, streamReq, fullText, finalResponse, emitted, aborted, endCause, nonStreamVars>>

\* case "response.completed": finalResponse = event.response
OnCompleted ==
    /\ CanRead
    /\ \E event \in CompletedEvents :
          /\ consumed' = Append(consumed, event)
          /\ finalResponse' = Some(event.response)
    /\ UNCHANGED <<spc, streamReq, fullText, emitted, aborted, endCause, nonStreamVars>>

\* case "response.failed": handlers.onError?.(event.response || event); break
\* leaves the switch, not the loop.
OnFailed ==
    /\ CanRead
    /\ handlers
    /\ \E event \in FailedEvents :
          /\ consumed' = Append(consumed, event)
          /\ emitted' = Append(emitted, [cb |-> "onError", arg |-> FailurePayload(event)])
    /\ UNCHANGED <<spc, streamReq, fullText, finalResponse, aborted, endCause, nonStreamVars>>

\* An event type the switch has no case for.
OnOther ==
    /\ CanRead
    /\ \E event \in OtherEvents : consumed' = Append(consumed, event)
    /\ UNCHANGED <<spc, streamReq, fullText, finalResponse, emitted, aborted, endCause, nonStreamVars>>

\* The iteration ends (the upstream is exhausted, or it was aborted and ends
\* quietly): the code after the loop runs.
StreamEnd ==
    /\ spc = "loop"
    /\ handlers
    /\ \E t \in Times : emitted' = AfterLoop(emitted, finalResponse, fullText, streamReq, t)
    /\ spc' = "done"
    /\ endCause' = "exhausted"
    /\ UNCHANGED <<streamReq, fullText, finalResponse, consumed, aborted, nonStreamVars>>

\* The iteration throws (a transport error, or the abort reported by rejecting
\* the pending read): catch (err) { handlers.onError?.(err) } (index.ts:292-294).
StreamThrow ==
    /\ spc = "loop"
    /\ handlers
    /\ emitted' = Caught(emitted, ThrownError(aborted), streamReq, fullText)
    /\ spc' = "done"
    /\ endCause' = "threw"
    /\ UNCHANGED <<streamReq, fullText, finalResponse, consumed, aborted, nonStreamVars>>

\* The caller invokes the returned abort handle while the stream is in flight
\* (index.ts:298-304): stream.abort(); what it throws is ignored.
Abort ==
    /\ spc = "loop"
    /\ ~aborted
    /\ aborted' = TRUE
    /\ UNCHANGED <<spc, streamReq, fullText, finalResponse, consumed, emitted, endCause, nonStreamVars>>

-----------------------------------------------------------------------------
(* createCompletionStream called without the handlers argument, as            *)
(* tests/index.test.ts:72-87 calls it, and the caller iterating what it       *)
(* returns.  handlers is then undefined: reading a property of it throws a    *)
(* TypeError inside the try, the catch clause reads handlers.onError and      *)
(* throws again, and the promise of the consuming loop rejects unobserved:    *)
(* the loop has crashed.                                                      *)

\* case "response.output_text.delta" without handlers: fullText += delta, then
\* handlers.onDelta throws.
OnDeltaWithoutHandlers ==
    /\ CanRead
    /\ ~handlers
    /\ \E event \in DeltaEvents :
          /\ consumed' = Append(consumed, event)
          /\ fullText' = Accumulate(fullText, event)
    /\ spc' = "done"
    /\ endCause' = "crashed"
    /\ UNCHANGED <<streamReq, finalResponse, emitted, aborted, nonStreamVars>>

\* case "response.failed" without handlers: handlers.onError throws.
OnFailedWithoutHandlers ==
    /\ CanRead
    /\ ~handlers
    /\ \E event \in FailedEvents : consumed' = Append(consumed, event)
    /\ spc' = "done"
    /\ endCause' = "crashed"
    /\ UNCHANGED <<streamReq, fullText, finalResponse, emitted, aborted, nonStreamVars>>

\* The iteration ends without handlers: the code after the loop throws when it
\* reaches handlers.onDone, and does nothing when it has nothing to deliver.
StreamEndWithoutHandlers ==
    /\ spc = "loop"
    /\ ~handlers
    /\ spc' = "done"
    /\ endCause' = IF finalResponse # None \/ Len(fullText) > 0 THEN "crashed" ELSE "exhausted"
    /\ UNCHANGED <<streamReq, fullText, finalResponse, consumed, emitted, aborted, nonStreamVars>>

\* The iteration throws without handlers: handlers.onError throws in the catch clause.
StreamThrowWithoutHandlers ==
    /\ spc = "loop"
    /\ ~handlers
    /\ spc' = "done"
    /\ endCause' = "crashed"
    /\ UNCHANGED <<streamReq, fullText, finalResponse, consumed, emitted, aborted, nonStreamVars>>

\* The value the call resolves with (index.ts:297-305): an object whose one key
\* is abort.
ReturnedHandle == [ abort |-> "function" ]

\* for await (const part of v) asks v for its Symbol.asyncIterator method, then
\* for its Symbol.iterator method.
IsIterable(v) == "Symbol.asyncIterator" \in DOMAIN v \/ "Symbol.iterator" \in DOMAIN v

\* The caller iterates the value the call resolved with (tests/index.test.ts:83):
\* a value that is not iterable makes for await throw a TypeError.
ForAwait ==
    /\ spc \in {"loop", "done"}
    /\ caller.pc = "holding"
    /\ caller' = IF IsIterable(ReturnedHandle)
                 THEN [ caller EXCEPT !.pc = "iterating" ]
                 ELSE [ caller EXCEPT !.pc = "threw", !.thrown = Some("TypeError") ]
    /\ UNCHANGED <<handlers, streamVars, complVars, flatVars, concVars>>

IterateNext ==
    \/ CreateCompletionStream
    \/ CreateCompletionStreamRejects
    \/ OnDeltaWithoutHandlers
    \/ OnTextDone
    \/ OnCompleted
    \/ OnFailedWithoutHandlers
    \/ OnOther
    \/ StreamEndWithoutHandlers
    \/ StreamThrowWithoutHandlers
    \/ Abort
    \/ ForAwait

StreamInit ==
    /\ spc = "idle"
    /\ streamReq = [model |-> "m1", n |-> None]
    /\ fullText = <<>>
    /\ finalResponse = None
    /\ consumed = <<>>
    /\ emitted = <<>>
    /\ aborted = FALSE
    /\ endCause = "none"

StreamNext ==
    \/ CreateCompletionStream
    \/ CreateCompletionStreamRejects
    \/ OnDelta
    \/ OnTextDone
    \/ OnCompleted
    \/ OnFailed
    \/ OnOther
    \/ StreamEnd
    \/ StreamThrow
    \/ Abort

-----------------------------------------------------------------------------
(* The constructor (index.ts:165-175) and the legacy requests. *)

DefaultDelimiter == <<"\n">>

\* The default instruction template (index.ts:172) as tokens; "{n}" is the placeholder.
DefaultInstruction == <<"generate ", "{n}", " results, one per line">>

\* this.opts = { multiStrategy: ... || "first_only", promptSplitDelimiter: ... || "\n",
\*               promptSplitInstruction: ... || <default>, attachRawResponses: ... || false }
\* An empty delimiter or instruction is falsy and takes the default.
Constructor(options) ==
    [ multiStrategy          |-> OrElse(options.multiStrategy, "first_only"),
      promptSplitDelimiter   |-> IF options.promptSplitDelimiter \in {None, Some(<<>>)}
                                 THEN DefaultDelimiter ELSE options.promptSplitDelimiter[1],
      promptSplitInstruction |-> IF options.promptSplitInstruction \in {None, Some(<<>>)}
                                 THEN DefaultInstruction ELSE options.promptSplitInstruction[1],
      attachRawResponses     |-> OrElse(options.attachRawResponses, FALSE) ]

\* The strategies a caller may configure; the last one is no strategy of the adapter.
Strategies == {"parallel", "prompt_split", "first_only", "round_robin"}

Messages == << [role |-> "system", content |-> <<"s">>], [role |-> "user", content |-> <<"u", "?">>] >>

\* A legacy request with every optional field absent but n.
BareRequest(n) ==
    [ model |-> "m1", messages |-> Messages, max_tokens |-> None, temperature |-> None,
      top_p |-> None, stop |-> None, presence_penalty |-> None, frequency_penalty |-> None,
      user |-> None, n |-> n, logprobs |-> None ]

\* A legacy request with every optional field present.
FullRequest(n) ==
    [ model |-> "m1", messages |-> Messages, max_tokens |-> Some(16), temperature |-> Some(1),
      top_p |-> Some(1), stop |-> Some(<<"E">>), presence_penalty |-> Some(0),
      frequency_penalty |-> Some(0), user |-> Some("u1"), n |-> n, logprobs |-> Some(2) ]

\* A legacy request as a JSON body gives it: some optional fields hold null,
\* some a value, some are absent.
NullRequest(n) ==
    [ model |-> "m1", messages |-> Messages, max_tokens |-> NullOpt, temperature |-> Some(1),
      top_p |-> None, stop |-> NullOpt, presence_penalty |-> None, frequency_penalty |-> Some(0),
      user |-> NullOpt, n |-> n, logprobs |-> None ]

\* The values of n: absent, or an integer from -1 to MaxN.
NValues == {None} \cup { Some(k) : k \in (0 - 1)..MaxN }

LegacyRequests ==
    { BareRequest(n) : n \in NValues } \cup { FullRequest(n) : n \in NValues }
        \cup { NullRequest(n) : n \in NValues }

-----------------------------------------------------------------------------
(* completionRequestToResponses (index.ts:84-119). *)

\* The record built at index.ts:97-110, every key present: an undefined value
\* as None, a null as NullOpt.  metadata is an object literal without entries.
RequestFields(req) ==
    [ model             |-> Some(req.model),
      input             |-> Some(req.messages),
      max_output_tokens |-> req.max_tokens,
      temperature       |-> req.temperature,
      top_p             |-> req.top_p,
      stop              |-> req.stop,
      presence_penalty  |-> req.presence_penalty,
      frequency_penalty |-> req.frequency_penalty,
      metadata          |-> Some(<< >>) ]

\* Object.keys(req).forEach(k => { if (req[k] === undefined) delete req[k] }), then
\* metadata is deleted when every entry of it is null or undefined (it has none).
\* Only undefined is deleted: a key holding null stays.  The translated request
\* maps each remaining key to its value: Some(v), or NullOpt for null.
completionRequestToResponses(req) ==
    LET all  == RequestFields(req)
        kept == { k \in DOMAIN all : all[k] # None }
        keys == IF "metadata" \in kept /\ (\A k \in DOMAIN all["metadata"][1] : FALSE)
                THEN kept \ {"metadata"} ELSE kept
    IN  [ k \in keys |-> all[k] ]

-----------------------------------------------------------------------------
(* The backend's create call (an external collaborator): what it may answer. *)

TextItem(txt) == [type |-> "output_text", text |-> txt]

\* The responses of the strategy study: ids, models, creation times, statuses,
\* outputs and usage counters all differ between them.
StrategyResponses ==
    { [ id |-> "resp_1", model |-> "m1", created |-> Some(9), status |-> "completed",
        status_details |-> None,
        output |-> Some(<< [ content |-> Some(<< [type |-> "reasoning", text |-> <<"x">>],
                                               TextItem(<<"a">>) >>) ] >>),
        usage |-> Some([input_tokens |-> Some(2), output_tokens |-> Some(10), total_tokens |-> Some(12)]) ],
      [ id |-> "resp_2", model |-> "m2", created |-> None, status |-> "incomplete",
        status_details |-> Some([type |-> Some(<<"max_output_tokens">>)]),
        output |-> Some(<< [ content |-> Some(<< TextItem(<<"b">>) >>) ],
                           [ content |-> None ],
                           [ content |-> Some(<< TextItem(<<"\n", "c", " ">>) >>) ] >>),
        usage |-> Some([input_tokens |-> Some(2), output_tokens |-> Some(12), total_tokens |-> Some(14)]) ],
      [ id |-> "resp_3", model |-> "m1", created |-> Some(0), status |-> "incomplete",
        status_details |-> Some([type |-> None]),
        output |-> None,
        usage |-> Some([input_tokens |-> Some(3), output_tokens |-> None, total_tokens |-> None]) ],
      [ id |-> "resp_4", model |-> "m1", created |-> Some(8), status |-> "completed",
        status_details |-> None,
        output |-> Some(<< [ content |-> Some(<< TextItem(<<"a", "\n", "b", "\n", "c", "\n", "a">>) >>) ] >>),
        usage |-> None ] }

Alphabet == {"a", ",", " ", "\n"}

\* Every string over Alphabet of length at most len.
RECURSIVE TextsUpTo(_)
TextsUpTo(len) ==
    IF len = 0 THEN { <<>> }
    ELSE LET shorter == TextsUpTo(len - 1)
         IN  shorter \cup { Append(txt, c) : txt \in shorter, c \in Alphabet }

\* The responses of the prompt-split study: one completed response per text.
SplitResponses ==
    { [ id |-> "resp_s", model |-> "m1", created |-> Some(9), status |-> "completed",
        status_details |-> None,
        output |-> Some(<< [ content |-> Some(<< TextItem(txt) >>) ] >>),
        usage |-> Some([input_tokens |-> Some(2), output_tokens |-> Some(10), total_tokens |-> Some(12)]) ]
      : txt \in TextsUpTo(MaxTextLen) }

\* The responses the backend named b may answer a create call with.
BackendResponses(b) ==
    IF b = "strategy_study" THEN StrategyResponses
    ELSE IF b = "split_study" THEN SplitResponses
    ELSE {}

\* The delimiters of the prompt-split study: absent (the default), empty (falsy,
\* the default), a comma, and a comma followed by a space.
SplitDelimiters == { None, Some(<<>>), Some(<<",">>), Some(<<",", " ">>) }

-----------------------------------------------------------------------------
(* String operations of JavaScript used by _multiPromptSplit. *)

IsSpace(c) == c \in {" ", "\n"}

RECURSIVE TrimStart(_)
TrimStart(str) ==
    IF str # <<>> /\ IsSpace(Head(str)) THEN TrimStart(Tail(str)) ELSE str

RECURSIVE TrimEnd(_)
TrimEnd(str) ==
    IF str # <<>> /\ IsSpace(str[Len(str)]) THEN TrimEnd(SubSeq(str, 1, Len(str) - 1)) ELSE str

\* String.prototype.trim
Trim(str) == TrimEnd(TrimStart(str))

\* Whether the non-empty separator sep occurs in str at position p.
OccursAt(str, sep, p) ==
    /\ p + Len(sep) - 1 <= Len(str)
    /\ SubSeq(str, p, p + Len(sep) - 1) = sep

RECURSIVE Split(_, _)
\* String.prototype.split for a non-empty separator: the pieces between the
\* occurrences of sep, found from left to right without overlap.
Split(str, sep) ==
    LET hits == { p \in 1..Len(str) : OccursAt(str, sep, p) } IN
    IF hits = {} THEN << str >>
    ELSE LET p == CHOOSE q \in hits : \A r \in hits : q <= r
         IN  << SubSeq(str, 1, p - 1) >> \o Split(SubSeq(str, p + Len(sep), Len(str)), sep)

RECURSIVE Join(_, _)
\* Array.prototype.join(sep)
Join(strs, sep) ==
    IF strs = <<>> THEN <<>>
    ELSE IF Len(strs) = 1 THEN strs[1]
    ELSE strs[1] \o sep \o Join(Tail(strs), sep)

\* Array.prototype.slice(0, end): a negative end counts from the end of the array.
SliceTo(xs, end) ==
    LET last == IF end < 0 THEN (IF Len(xs) + end < 0 THEN 0 ELSE Len(xs) + end)
                ELSE (IF end > Len(xs) THEN Len(xs) ELSE end)
    IN  SubSeq(xs, 1, last)

\* while (lines.length < n) lines.push("")
PadTo(xs, n) ==
    IF Len(xs) >= n THEN xs
    ELSE [ i \in 1..n |-> IF i <= Len(xs) THEN xs[i] ELSE <<>> ]

-----------------------------------------------------------------------------
(* The multi-result strategies (index.ts:310-384). *)

\* A mutation of sum: one missing value voids the whole sum.
sumVoidedByMissing(nums) ==
    IF \E i \in 1..Len(nums) : nums[i] = None THEN 0
    ELSE LET RECURSIVE Add(_)
             Add(xs) == IF xs = <<>> THEN 0 ELSE Head(xs)[1] + Add(Tail(xs))
         IN  Add(nums)

RECURSIVE sum(_)
\* nums.reduce((acc, v) => acc + (typeof v === "number" ? v : 0), 0) (index.ts:156-158)
sum(nums) ==
    IF nums = <<>> THEN 0
    ELSE (IF Head(nums) = None THEN 0 ELSE Head(nums)[1]) + sum(Tail(nums))

IsFulfilled(task) == task.state = "fulfilled"
IsRejected(task)  == task.state = "rejected"
IsPending(task)   == task.state = "pending"

\* A mutation of PromiseAll: the promise waits for every task and never rejects.
PromiseAllSettled(ts) ==
    IF \E i \in 1..Len(ts) : IsPending(ts[i]) THEN "pending" ELSE "fulfilled"

\* The state of Promise.all(tasks) (index.ts:319), and of the single awaited
\* call: rejected as soon as one task is, fulfilled once all are.
PromiseAll(ts) ==
    IF \E i \in 1..Len(ts) : IsRejected(ts[i]) THEN "rejected"
    ELSE IF \E i \in 1..Len(ts) : IsPending(ts[i]) THEN "pending"
    ELSE "fulfilled"

\* A mutation of PromiseAllResults: the values in the order the tasks settled.
ResultsInSettlementOrder(ts, ord) ==
    LET done == SelectSeq(ord, LAMBDA i : IsFulfilled(ts[i]))
    IN  [ i \in 1..Len(done) |-> ts[done[i]].value ]

\* The value Promise.all resolves with: the tasks' values in dispatch order.
PromiseAllResults(ts, ord) ==
    LET done == SelectSeq(ts, IsFulfilled)
    IN  [ i \in 1..Len(done) |-> done[i].value ]

\* The merge of _multiParallel (index.ts:320-340).  legacyResults[0] of an
\* empty array is undefined, and reading its id throws a TypeError.
MultiParallelMerge(o, results, t) ==
    LET legacyResults == [ i \in 1..Len(results) |-> responsesToCompletion(results[i], t) ]
        prompts     == [ i \in 1..Len(results) |-> legacyResults[i].usage.prompt_tokens ]
        completions == [ i \in 1..Len(results) |-> legacyResults[i].usage.completion_tokens ]
        totals      == [ i \in 1..Len(results) |-> legacyResults[i].usage.total_tokens ]
        merged ==
            [ id      |-> legacyResults[1].id,
              object  |-> "text_completion",
              created |-> legacyResults[1].created,
              model   |-> legacyResults[1].model,
              choices |-> [ i \in 1..Len(results) |->
                              [ legacyResults[i].choices[1] EXCEPT !.index = i - 1 ] ],
              usage   |-> [ prompt_tokens     |-> Some(sum(prompts)),
                            completion_tokens |-> Some(sum(completions)),
                            total_tokens      |-> Some(sum(totals)) ] ]
    IN  IF results = <<>> THEN [ thrown |-> Some("TypeError"), value |-> None ]
        ELSE [ thrown |-> None,
               value  |-> Some(IF o.attachRawResponses
                               THEN merged @@ [rawResponses |-> results] ELSE merged) ]

\* instruction.replace(/\{n\}/g, String(n)) (index.ts:347)
Instruction(o, n) ==
    [ i \in 1..Len(o.promptSplitInstruction) |->
        IF o.promptSplitInstruction[i] = "{n}" THEN ToString(n) ELSE o.promptSplitInstruction[i] ]

\* The combined prompt (index.ts:349-350), as its parts in order: the message
\* contents joined by the delimiter, a blank line, the instruction, the line directive.
CombinedPrompt(o, req, n) ==
    << Join([ i \in 1..Len(req.messages) |-> req.messages[i].content ], o.promptSplitDelimiter),
       "\n\n", Instruction(o, n), "\n", "lines: ", ToString(n) >>

\* singleReq of _multiPromptSplit (index.ts:352-356)
PromptSplitRequest(o, req, n) ==
    [ req EXCEPT !.messages = << [role |-> "user", content |-> CombinedPrompt(o, req, n)] >>,
                 !.n = Some(1) ]

\* let lines = rawText.split(delimiter).map(l => l.trim()).filter(Boolean);
\* if (lines.length > n) lines = lines.slice(0, n); while (lines.length < n) lines.push("");
\* with rawText = legacySingle.choices[0].text.trim() (index.ts:361-365).
PromptSplitLines(text, delimiter, n) ==
    LET rawText  == Trim(text)
        pieces   == Split(rawText, delimiter)
        trimmed  == [ i \in 1..Len(pieces) |-> Trim(pieces[i]) ]
        lines    == SelectSeq(trimmed, LAMBDA l : l # <<>>)
        cut      == IF Len(lines) > n THEN SliceTo(lines, n) ELSE lines
    IN  PadTo(cut, n)

\* The merge of _multiPromptSplit (index.ts:360-383).
MultiPromptSplitMerge(o, responsesResult, n, t) ==
    LET legacySingle == responsesToCompletion(responsesResult, t)
        lines  == PromptSplitLines(legacySingle.choices[1].text, o.promptSplitDelimiter, n)
        merged ==
            [ id      |-> legacySingle.id,
              object  |-> "text_completion",
              created |-> legacySingle.created,
              model   |-> legacySingle.model,
              choices |-> [ i \in 1..Len(lines) |->
                              [ text |-> lines[i], index |-> i - 1, logprobs |-> Null,
                                finish_reason |-> "stop" ] ],
              usage   |-> legacySingle.usage ]
    IN  [ thrown |-> None,
          value  |-> Some(IF o.attachRawResponses
                          THEN merged @@ [rawResponses |-> responsesResult] ELSE merged) ]

\* The single-call path of createCompletion (index.ts:184-190 and 200-206).
SingleResult(o, responsesResult, t) ==
    LET legacy == responsesToCompletion(responsesResult, t)
    IN  [ thrown |-> None,
          value  |-> Some(IF o.attachRawResponses
                          THEN legacy @@ [rawResponses |-> responsesResult] ELSE legacy) ]

-----------------------------------------------------------------------------
(* createCompletion (index.ts:178-209). *)

\* const n = legacyReq.n ?? 1
EffectiveN(req) == OrElse(req.n, 1)

\* Which code path a call takes: the n === 1 / first_only test, then the switch
\* with its default case.
Path(o, req) ==
    IF EffectiveN(req) = 1 \/ o.multiStrategy = "first_only" THEN "single"
    ELSE IF o.multiStrategy = "parallel" THEN "parallel"
    ELSE IF o.multiStrategy = "prompt_split" THEN "prompt_split"
    ELSE "single"

\* Array.from({ length: n }, ...): a negative length gives the empty array.
ArrayLength(n) == IF n < 0 THEN 0 ELSE n

\* The requests handed to client.responses.create before the first await, in
\* dispatch order.
Dispatch(o, req) ==
    LET path == Path(o, req) IN
    IF path = "parallel"
    THEN [ i \in 1..ArrayLength(EffectiveN(req)) |->
             completionRequestToResponses([req EXCEPT !.n = Some(1)]) ]
    ELSE IF path = "prompt_split"
    THEN << completionRequestToResponses(PromptSplitRequest(o, req, EffectiveN(req))) >>
    ELSE << completionRequestToResponses(req) >>

PendingTask      == [ state |-> "pending" ]
FulfilledTask(r) == [ state |-> "fulfilled", value |-> r ]
RejectedTask     == [ state |-> "rejected", value |-> "BackendError" ]

\* The state of the promise the call awaits: Promise.all of the tasks on the
\* parallel path, the one task otherwise.
AwaitedState(o, req, ts) ==
    IF Path(o, req) = "parallel" THEN PromiseAll(ts) ELSE ts[1].state

\* The code after the await, run once the awaited promise is fulfilled.
Continuation(o, req, ts, ord, t) ==
    LET path    == Path(o, req)
        results == PromiseAllResults(ts, ord)
    IN  IF path = "parallel" THEN MultiParallelMerge(o, results, t)
        ELSE IF path = "prompt_split"
        THEN MultiPromptSplitMerge(o, results[1], EffectiveN(req), t)
        ELSE SingleResult(o, results[1], t)

\* Where the call stands given its tasks: still awaiting, rejected with the
\* backend's error or with what the continuation threw, or returned.
Resume(o, req, ts, ord, t) ==
    LET st == AwaitedState(o, req, ts) IN
    IF st = "pending" THEN [ cpc |-> "awaiting", result |-> None, thrown |-> None ]
    ELSE IF st = "rejected"
    THEN [ cpc |-> "rejected", result |-> None, thrown |-> Some("BackendError") ]
    ELSE LET r == Continuation(o, req, ts, ord, t) IN
         IF r.thrown # None
         THEN [ cpc |-> "rejected", result |-> None, thrown |-> r.thrown ]
         ELSE [ cpc |-> "returned", result |-> r.value, thrown |-> None ]

\* createCompletion up to its first await: every backend call of the chosen
\* path is dispatched.  With no call to wait for, the continuation runs at once.
CreateCompletion ==
    /\ cpc = "idle"
    /\ \E req \in LegacyRequests, t \in Times :
          LET reqs == Dispatch(opts, req)
              ts   == [ i \in 1..Len(reqs) |-> PendingTask ]
              r    == Resume(opts, req, ts, <<>>, t)
          IN  /\ legacyReq' = req
              /\ sent' = reqs
              /\ tasks' = ts
              /\ order' = <<>>
              /\ cpc' = r.cpc
              /\ result' = r.result
              /\ thrown' = r.thrown
    /\ UNCHANGED <<opts, backend, nonComplVars>>

\* What a settled task does to the call: nothing once the call has ended.
AfterSettle(ts, ord, t) ==
    IF cpc = "awaiting" THEN Resume(opts, legacyReq, ts, ord, t)
    ELSE [ cpc |-> cpc, result |-> result, thrown |-> thrown ]

\* The backend answers one pending call with a response.
BackendFulfils ==
    /\ \E i \in 1..Len(tasks), resp \in BackendResponses(backend), t \in Times :
          /\ IsPending(tasks[i])
          /\ LET ts  == [ tasks EXCEPT ![i] = FulfilledTask(resp) ]
                 ord == Append(order, i)
                 r   == AfterSettle(ts, ord, t)
             IN  /\ tasks' = ts
                 /\ order' = ord
                 /\ cpc' = r.cpc
                 /\ result' = r.result
                 /\ thrown' = r.thrown
    /\ UNCHANGED <<opts, backend, legacyReq, sent, nonComplVars>>

\* One pending call fails.
BackendRejects ==
    /\ \E i \in 1..Len(tasks), t \in Times :
          /\ IsPending(tasks[i])
          /\ LET ts  == [ tasks EXCEPT ![i] = RejectedTask ]
                 ord == Append(order, i)
                 r   == AfterSettle(ts, ord, t)
             IN  /\ tasks' = ts
                 /\ order' = ord
                 /\ cpc' = r.cpc
                 /\ result' = r.result
                 /\ thrown' = r.thrown
    /\ UNCHANGED <<opts, backend, legacyReq, sent, nonComplVars>>

NoOptions ==
    [ multiStrategy |-> None, promptSplitDelimiter |-> None,
      promptSplitInstruction |-> None, attachRawResponses |-> None ]

\* The options of the strategy study: every strategy or none, raw responses
\* attached or not.
StrategyOptions ==
    { [ NoOptions EXCEPT !.multiStrategy = st, !.attachRawResponses = raw ] :
        st \in {None} \cup { Some(x) : x \in Strategies }, raw \in {None, Some(TRUE)} }

\* The options of the prompt-split study: every delimiter.
SplitOptions ==
    { [ NoOptions EXCEPT !.multiStrategy = Some("prompt_split"), !.promptSplitDelimiter = d ] :
        d \in SplitDelimiters }

\* No call made yet.
NoCall ==
    /\ cpc = "idle"
    /\ legacyReq = BareRequest(None)
    /\ sent = <<>>
    /\ tasks = <<>>
    /\ order = <<>>
    /\ result = None
    /\ thrown = None

\* The non-streaming side at rest.
ComplIdle ==
    /\ opts = Constructor(NoOptions)
    /\ backend = "none"
    /\ NoCall

-----------------------------------------------------------------------------
(* responsesToCompletion applied more than once to one backend response. *)

\* The backend responses of the flattening study: every combination of a
\* creation time (absent, zero, set), a status, status details, an output and
\* a usage record.
FlattenInputs ==
    { [ id |-> "resp_1", model |-> "m1", created |-> c, status |-> st,
        status_details |-> sd, output |-> out, usage |-> u ] :
        c   \in {None, Some(0), Some(9)},
        st  \in {"completed", "incomplete"},
        sd  \in {None, Some([type |-> None]), Some([type |-> Some(<<"max_output_tokens">>)])},
        out \in {None, Some(<< [ content |-> Some(<< TextItem(<<"a">>) >>) ] >>)},
        u   \in {None, Some([input_tokens |-> Some(2), output_tokens |-> None,
                             total_tokens |-> Some(12)])} }

\* One application of responsesToCompletion to the response, at the clock
\* reading t; the function reads the response and assigns nothing to it.
Flatten ==
    /\ Len(flat.results) < 2
    /\ \E t \in Times :
          flat' = [ flat EXCEPT !.results =
                      Append(@, [ at |-> t, legacy |-> responsesToCompletion(flat.input, t) ]) ]
    /\ UNCHANGED <<streamVars, complVars, callerVars, concVars>>

\* No response flattened on its own.
FlatIdle == flat = [ input |-> None, results |-> <<>> ]

\* The caller has not iterated the returned value.
NotIterated == caller = [ pc |-> "holding", pulled |-> <<>>, thrown |-> None ]

\* The call passes its handlers and the caller does not iterate the returned value.
CallerIdle ==
    /\ handlers = TRUE
    /\ NotIterated

\* No concurrent stream calls.
ConcIdle == calls = <<>>

FlattenInit ==
    /\ StreamInit
    /\ ComplIdle
    /\ CallerIdle
    /\ ConcIdle
    /\ flat \in { [ input |-> r, results |-> <<>> ] : r \in FlattenInputs }

FlattenNext == Flatten

\* One backend response flattened twice, at any two clock readings.
FlattenSpec == FlattenInit /\ [][FlattenNext]_vars

-----------------------------------------------------------------------------
(* Several createCompletionStream calls at once on one adapter, together     *)
(* with a createCompletion call.  fullText and finalResponse are locals of   *)
(* each call (index.ts:230-231), and so is the handlers argument; the        *)
(* adapter holds only this.client and this.opts.                             *)

\* The concurrent stream calls.
StreamIds == {1, 2}

\* The request of each call: the calls ask for different models.
ConcRequest(id) == [ model |-> IF id = 1 THEN "m1" ELSE "m2", n |-> None ]

\* The events the concurrent upstreams deliver: those that change a call's
\* locals, the non-empty deltas and the completed event of a completed response.
ConcDeltaEvents == { e \in DeltaEvents : e.delta # <<>> }
ConcCompletedEvents == { e \in CompletedEvents : e.response.status = "completed" }

\* The locals of a call not yet made.
NotCalled(id) ==
    [ pc |-> "idle", req |-> ConcRequest(id), fullText |-> <<>>, finalResponse |-> None,
      consumed |-> <<>>, emitted |-> <<>>, endCause |-> "none" ]

\* A mutation of OwnText: the accumulated text is one field shared by the
\* calls, holding the longest text any of them has accumulated.
SharedText(cs, id) ==
    LET longest == CHOOSE j \in DOMAIN cs :
                       \A k \in DOMAIN cs : Len(cs[k].fullText) <= Len(cs[j].fullText)
    IN  cs[longest].fullText

\* The fullText a call reads and extends: its own local (index.ts:231).
OwnText(cs, id) == cs[id].fullText

\* The call id up to the return of its abort handle.
ConcCreate(id) ==
    /\ calls[id].pc = "idle"
    /\ calls' = [ calls EXCEPT ![id] =
                    [ @ EXCEPT !.pc = "loop", !.fullText = <<>>, !.finalResponse = None ] ]
    /\ UNCHANGED <<streamVars, complVars, flatVars, callerVars>>

ConcCanRead(id) == calls[id].pc = "loop" /\ Len(calls[id].consumed) < MaxConcEvents

\* case "response.output_text.delta" in the call id
ConcOnDelta(id) ==
    /\ ConcCanRead(id)
    /\ \E event \in ConcDeltaEvents :
          calls' = [ calls EXCEPT ![id] =
                       [ @ EXCEPT !.consumed = Append(@, event),
                                  !.fullText = Accumulate(OwnText(calls, id), event),
                                  !.emitted  = EmitDelta(@, event) ] ]
    /\ UNCHANGED <<streamVars, complVars, flatVars, callerVars>>

\* case "response.completed" in the call id
ConcOnCompleted(id) ==
    /\ ConcCanRead(id)
    /\ \E event \in ConcCompletedEvents :
          calls' = [ calls EXCEPT ![id] =
                       [ @ EXCEPT !.consumed = Append(@, event),
                                  !.finalResponse = Some(event.response) ] ]
    /\ UNCHANGED <<streamVars, complVars, flatVars, callerVars>>

\* The iteration of the call id ends: its code after the loop runs.
ConcStreamEnd(id) ==
    /\ calls[id].pc = "loop"
    /\ \E t \in Times :
          calls' = [ calls EXCEPT ![id] =
                       [ @ EXCEPT !.pc = "done", !.endCause = "exhausted",
                                  !.emitted = AfterLoop(@, calls[id].finalResponse,
                                                        OwnText(calls, id), calls[id].req, t) ] ]
    /\ UNCHANGED <<streamVars, complVars, flatVars, callerVars>>

\* The iteration of the call id throws: its catch clause runs.
ConcStreamThrow(id) ==
    /\ calls[id].pc = "loop"
    /\ calls' = [ calls EXCEPT ![id] =
                    [ @ EXCEPT !.pc = "done", !.endCause = "threw",
                               !.emitted = Caught(@, ThrownError(FALSE), calls[id].req,
                                                  OwnText(calls, id)) ] ]
    /\ UNCHANGED <<streamVars, complVars, flatVars, callerVars>>

\* A createCompletion call made while the streams run.
ConcCreateCompletion == CreateCompletion /\ legacyReq' = BareRequest(None)

\* A default adapter before any call, over a backend answering with StrategyResponses.
ConcurrentInit ==
    /\ StreamInit
    /\ opts = Constructor(NoOptions)
    /\ backend = "strategy_study"
    /\ NoCall
    /\ FlatIdle
    /\ CallerIdle
    /\ calls = [ id \in StreamIds |-> NotCalled(id) ]

ConcurrentNext ==
    \/ \E id \in StreamIds : ConcCreate(id)
    \/ \E id \in StreamIds : ConcOnDelta(id)
    \/ \E id \in StreamIds : ConcOnCompleted(id)
    \/ \E id \in StreamIds : ConcStreamEnd(id)
    \/ \E id \in StreamIds : ConcStreamThrow(id)
    \/ ConcCreateCompletion
    \/ BackendFulfils
    \/ BackendRejects

\* Two streams and one createCompletion call on one adapter, their steps interleaved.
ConcurrentSpec == ConcurrentInit /\ [][ConcurrentNext]_vars

-----------------------------------------------------------------------------
(* The specifications of the one stream and of createCompletion. *)

\* The state before a stream is created by a call without handlers.
IterateInit ==
    /\ StreamInit
    /\ ComplIdle
    /\ FlatIdle
    /\ ConcIdle
    /\ handlers = FALSE
    /\ NotIterated

\* One stream created without handlers, and its caller iterating the returned value.
IterateSpec == IterateInit /\ [][IterateNext]_vars

\* The state after construction, before the stream is created.
StreamSpecInit == StreamInit /\ ComplIdle /\ FlatIdle /\ CallerIdle /\ ConcIdle

\* One stream from creation to its end.
StreamSpec == StreamSpecInit /\ [][StreamNext]_vars

\* The same, with an upstream that does not stall for ever: the iteration of
\* an open stream eventually ends or throws (the backend client settles the
\* pending read of an aborted stream, and the event loop runs the consuming
\* loop's continuation).
StreamFairSpec == StreamSpec /\ WF_vars(StreamEnd \/ StreamThrow)

\* An adapter constructed with any strategy, over a backend answering with
\* StrategyResponses.
CompletionInit ==
    /\ StreamInit
    /\ opts \in { Constructor(o) : o \in StrategyOptions }
    /\ backend = "strategy_study"
    /\ NoCall
    /\ FlatIdle
    /\ CallerIdle
    /\ ConcIdle

CompletionNext ==
    \/ CreateCompletion
    \/ BackendFulfils
    \/ BackendRejects

\* One createCompletion call from dispatch to its end, under every strategy.
CompletionSpec == CompletionInit /\ [][CompletionNext]_vars

\* An adapter constructed with the prompt-split strategy and any delimiter,
\* over a backend answering with any text up to MaxTextLen.
SplitInit ==
    /\ StreamInit
    /\ opts \in { Constructor(o) : o \in SplitOptions }
    /\ backend = "split_study"
    /\ NoCall
    /\ FlatIdle
    /\ CallerIdle
    /\ ConcIdle

\* One createCompletion call under the prompt-split strategy.
SplitSpec == SplitInit /\ [][CompletionNext]_vars

-----------------------------------------------------------------------------
(* Properties of createCompletionStream, checked under StreamSpec. *)

IsDelta(e)     == e.type = DeltaType
IsCompleted(e) == e.type = CompletedType
IsFailed(e)    == e.type = FailedType

IsOnDelta(c) == c.cb = "onDelta"
IsOnDone(c)  == c.cb = "onDone"
IsOnError(c) == c.cb = "onError"

\* A handler invocation that surfaces the payload of a failed event.
IsFailureValue(c) == c.cb = "onError" /\ c.arg \in { FailurePayload(e) : e \in FailedEvents }

\* The deltas of the delta events read so far, in arrival order.
ConsumedDeltas ==
    LET ds == SelectSeq(consumed, IsDelta) IN [i \in 1..Len(ds) |-> ds[i].delta]

\* The events read are k >= 0 delta events followed by one completed event.
DeltasThenCompleted ==
    /\ Len(consumed) >= 1
    /\ IsCompleted(consumed[Len(consumed)])
    /\ \A i \in 1..(Len(consumed) - 1) : IsDelta(consumed[i])

\* The events read are one or more delta events and nothing else.
OnlyDeltas ==
    /\ Len(consumed) >= 1
    /\ \A i \in 1..Len(consumed) : IsDelta(consumed[i])

\* The stream ran to the end of the upstream without an abort.
ExhaustedNormally == spc = "done" /\ endCause = "exhausted" /\ ~aborted

\* The chunk the legacy contract asks for a delta: the delta as content, index 0,
\* finish_reason null.
ExpectedChunk(d) ==
    [ cb  |-> "onDelta",
      arg |-> [ id |-> "item_1", object |-> "text_completion.chunk",
                choices |-> << [text |-> d, index |-> 0, finish_reason |-> Null] >> ] ]

\* C1 (as claimed): once a failed event arrived, its payload is the last value
\* of the stream: no event after the failed event is read, and no delta chunk,
\* final record or other value is emitted after the failure value.
C1_FailureIsTerminal ==
    /\ \A i \in 1..Len(consumed) : IsFailed(consumed[i]) => i = Len(consumed)
    /\ \A i \in 1..Len(emitted) : IsFailureValue(emitted[i]) => i = Len(emitted)

\* C2 (as claimed): after k delta events, one completed event and normal
\* exhaustion, the emitted values are the k delta chunks followed by exactly
\* one final record whose choice content is the empty string and whose
\* finish_reason is "stop".  (Read for a completed event whose response has
\* status completed, so that only the content decides.)
C2_FinalChunkEmptyContent ==
    (ExhaustedNormally /\ DeltasThenCompleted
        /\ consumed[Len(consumed)].response.status = "completed") =>
        LET k == Len(consumed) - 1 IN
        /\ Len(emitted) = k + 1
        /\ \A i \in 1..k : emitted[i] = ExpectedChunk(consumed[i].delta)
        /\ IsOnDone(emitted[k + 1])
        /\ emitted[k + 1].arg.id = consumed[k + 1].response.id
        /\ Len(emitted[k + 1].arg.choices) = 1
        /\ emitted[k + 1].arg.choices[1].text = <<>>
        /\ emitted[k + 1].arg.choices[1].finish_reason = "stop"

\* The finish_reason the flattener derives: "stop" for a completed response,
\* else the incompleteness reason when the response gives one, else "stop".
ExpectedFinishReason(r) ==
    CASE r.status = "completed" -> "stop"
      [] r.status # "completed" /\ r.status_details = None -> "stop"
      [] r.status # "completed" /\ r.status_details # None /\ r.status_details[1].type = None -> "stop"
      [] OTHER -> r.status_details[1].type[1]

\* C2 (amended): after k delta events, one completed event and normal
\* exhaustion, the emitted values are the k delta chunks followed by exactly
\* one final record derived from the recorded final response (its id and
\* model) whose choice content is the full accumulated text, the concatenation
\* of the k deltas, and whose finish_reason is the flattened response's:
\* "stop" when the response's status is completed.
C2_FinalRecordCarriesFullText ==
    (ExhaustedNormally /\ DeltasThenCompleted) =>
        LET k == Len(consumed) - 1
            r == consumed[k + 1].response
        IN
        /\ Len(emitted) = k + 1
        /\ \A i \in 1..k : emitted[i] = ExpectedChunk(consumed[i].delta)
        /\ IsOnDone(emitted[k + 1])
        /\ emitted[k + 1].arg.id = r.id
        /\ emitted[k + 1].arg.model = r.model
        /\ emitted[k + 1].arg.object = "text_completion"
        /\ Len(emitted[k + 1].arg.choices) = 1
        /\ emitted[k + 1].arg.choices[1].text = Concat(ConsumedDeltas)
        /\ emitted[k + 1].arg.choices[1].index = 0
        /\ emitted[k + 1].arg.choices[1].logprobs = Null
        /\ emitted[k + 1].arg.choices[1].finish_reason = ExpectedFinishReason(r)
        /\ (r.status = "completed" => emitted[k + 1].arg.choices[1].finish_reason = "stop")

\* C2 witness: two non-empty deltas, then a completed event whose response
\* carries a text of its own, then normal exhaustion.
C2_Witness ==
    /\ ExhaustedNormally
    /\ DeltasThenCompleted
    /\ Len(consumed) = 3
    /\ consumed[1].delta = <<"a">>
    /\ consumed[2].delta = <<"b">>
    /\ consumed[3].response.status = "completed"
    /\ AllText(consumed[3].response) # <<>>

\* C3 (as claimed): a stream that delivered one or more deltas (some text was
\* accumulated) and was then aborted before any completed event ends with the
\* delta chunks followed by exactly one synthetic final record carrying the
\* accumulated text, the placeholder id, finish_reason "stop" and empty usage;
\* the abort is not surfaced as an error.
C3_AbortGivesSyntheticFinal ==
    (spc = "done" /\ aborted /\ OnlyDeltas /\ Concat(ConsumedDeltas) # <<>>) =>
        LET k == Len(consumed) IN
        /\ Len(emitted) = k + 1
        /\ \A i \in 1..Len(emitted) : ~IsOnError(emitted[i])
        /\ IsOnDone(emitted[k + 1])
        /\ emitted[k + 1].arg.id = "unknown"
        /\ emitted[k + 1].arg.choices[1].text = Concat(ConsumedDeltas)
        /\ emitted[k + 1].arg.choices[1].finish_reason = "stop"
        /\ emitted[k + 1].arg.usage = << >>

\* C4: the delta chunks emitted so far are, one for one and in arrival order,
\* the delta events read so far, each carrying its event's delta as content,
\* index 0 and finish_reason null.
C4_OneChunkPerDeltaInOrder ==
    LET chunks == SelectSeq(emitted, IsOnDelta)
        ds     == ConsumedDeltas
    IN  /\ Len(chunks) = Len(ds)
        /\ \A i \in 1..Len(ds) : chunks[i] = ExpectedChunk(ds[i])

\* C4 witness: three delta events, one of them empty, with another event in
\* between, and their three chunks emitted.
C4_Witness ==
    /\ Len(consumed) = 4
    /\ ConsumedDeltas = << <<"b">>, <<>>, <<"a">> >>
    /\ ~IsDelta(consumed[2])
    /\ Len(SelectSeq(emitted, IsOnDelta)) = 3

\* C5 (as claimed): the terminal outcomes of a stream exclude one another: a
\* final record (proper or synthetic) is delivered at most once, and never
\* together with the failure value of a failed event.
C5_ExclusiveOutcomes ==
    LET dones    == SelectSeq(emitted, IsOnDone)
        failures == SelectSeq(emitted, IsFailureValue)
    IN  /\ Len(dones) <= 1
        /\ ~(Len(dones) >= 1 /\ Len(failures) >= 1)

-----------------------------------------------------------------------------
(* Properties of createCompletion, checked under CompletionSpec and SplitSpec. *)

CallEnded == cpc \in {"returned", "rejected"}

SomeTaskRejected == \E i \in 1..Len(tasks) : IsRejected(tasks[i])

\* The call runs the parallel strategy with n > 1.
ParallelCall ==
    /\ cpc # "idle"
    /\ opts.multiStrategy = "parallel"
    /\ EffectiveN(legacyReq) > 1

\* The call runs the prompt-split strategy with n > 1.
PromptSplitCall ==
    /\ cpc # "idle"
    /\ opts.multiStrategy = "prompt_split"
    /\ EffectiveN(legacyReq) > 1

\* C6 (as claimed): a call with n absent, n = 0 or n = 1 under any strategy,
\* or with any n under first_only, whose backend calls all succeed returns a
\* response with exactly one choice, at index 0, with logprobs null.
C6_SingleChoice ==
    (CallEnded /\ ~SomeTaskRejected
        /\ (EffectiveN(legacyReq) \in {0, 1} \/ opts.multiStrategy = "first_only")) =>
        /\ cpc = "returned"
        /\ Len(result[1].choices) = 1
        /\ result[1].choices[1].index = 0
        /\ result[1].choices[1].logprobs = Null

\* C7: under the parallel strategy with n > 1, whatever the order in which
\* the n calls completed, the merged response has n choices with indices
\* 0..n-1, the choice at index i is the flattened result of the i-th
\* dispatched call, and id, created and model are those of the first
\* dispatched call's flattened result (its creation time, or a clock reading
\* when it has none).
C7_ChoicesInDispatchOrder ==
    (ParallelCall /\ cpc = "returned") =>
        LET n     == EffectiveN(legacyReq)
            first == tasks[1].value
        IN
        /\ Len(tasks) = n
        /\ Len(result[1].choices) = n
        /\ \A i \in 1..n :
              /\ result[1].choices[i].index = i - 1
              /\ result[1].choices[i].text = AllText(tasks[i].value)
              /\ result[1].choices[i].finish_reason = ExpectedFinishReason(tasks[i].value)
              /\ result[1].choices[i].logprobs = Null
        /\ result[1].id = first.id
        /\ result[1].model = first.model
        /\ IF first.created \in {None, Some(0)}
           THEN result[1].created \in Times
           ELSE result[1].created = first.created[1]

\* C7 witness: three calls answered with three different responses, completed
\* in the order third, first, second, and the merged response returned.
C7_Witness ==
    /\ ParallelCall
    /\ cpc = "returned"
    /\ EffectiveN(legacyReq) = 3
    /\ order = <<3, 1, 2>>
    /\ tasks[1].value.id = "resp_2"
    /\ tasks[2].value.id = "resp_1"
    /\ tasks[3].value.id = "resp_4"

\* What the branch i reports for a backend usage counter; 0 when it lacks it.
Contribution(i, counter) ==
    IF tasks[i].value.usage = None THEN 0
    ELSE IF tasks[i].value.usage[1][counter] = None THEN 0
    ELSE tasks[i].value.usage[1][counter][1]

\* The sum of the branches' contributions for a backend usage counter.
Total(counter) ==
    LET RECURSIVE UpTo(_)
        UpTo(k) == IF k = 0 THEN 0 ELSE Contribution(k, counter) + UpTo(k - 1)
    IN  UpTo(Len(tasks))

\* C8: each usage field of the response merged by the parallel strategy is the
\* arithmetic sum of that field over the n branch results, a branch lacking
\* the field (or the whole usage record) contributing 0.
C8_UsageIsSum ==
    (ParallelCall /\ cpc = "returned") =>
        /\ result[1].usage.prompt_tokens = Some(Total("input_tokens"))
        /\ result[1].usage.completion_tokens = Some(Total("output_tokens"))
        /\ result[1].usage.total_tokens = Some(Total("total_tokens"))

\* C8 witness: three branches reporting completion_tokens 10, 12 and none
\* merge to 22.
C8_Witness ==
    /\ ParallelCall
    /\ cpc = "returned"
    /\ EffectiveN(legacyReq) = 3
    /\ UsageField(tasks[1].value, "output_tokens") = Some(10)
    /\ UsageField(tasks[2].value, "output_tokens") = Some(12)
    /\ UsageField(tasks[3].value, "output_tokens") = None
    /\ result[1].usage.completion_tokens = Some(22)

\* C9: under the parallel strategy with n > 1, once one of the n backend calls
\* has failed the call is rejected and stays so, whatever the other branches
\* do: no merged response is returned, and exactly n calls were issued (none
\* is retried).
C9_OneFailureRejectsAll ==
    (ParallelCall /\ SomeTaskRejected) =>
        /\ cpc = "rejected"
        /\ result = None
        /\ thrown = Some("BackendError")
        /\ Len(sent) = EffectiveN(legacyReq)
        /\ Len(tasks) = EffectiveN(legacyReq)

\* C9 witness: of three calls the second fails after the third succeeded and
\* before the first succeeds; all have settled and the call is rejected.
C9_Witness ==
    /\ ParallelCall
    /\ EffectiveN(legacyReq) = 3
    /\ order = <<3, 2, 1>>
    /\ IsFulfilled(tasks[1])
    /\ IsRejected(tasks[2])
    /\ IsFulfilled(tasks[3])
    /\ cpc = "rejected"

\* The non-empty trimmed segments of a text split on a delimiter, in order.
Segments(text, delimiter) ==
    LET pieces  == Split(text, delimiter)
        trimmed == [ i \in 1..Len(pieces) |-> Trim(pieces[i]) ]
    IN  SelectSeq(trimmed, LAMBDA l : l # <<>>)

\* The choices the prompt-split contract asks for: the first min(k, n)
\* segments, then empty strings, n in all.
ExpectedSplitChoices(segs, n) ==
    [ i \in 1..n |-> [ text |-> IF i <= Len(segs) THEN segs[i] ELSE <<>>,
                       index |-> i - 1, logprobs |-> Null, finish_reason |-> "stop" ] ]

\* C10 (as claimed): under the prompt-split strategy with n > 1, for every
\* response text the result has n choices at indices 0..n-1, all with
\* finish_reason "stop" and logprobs null: the first min(k, n) are the
\* non-empty trimmed segments of the text split on the delimiter, in order,
\* the others are empty strings.
C10_SplitPadTruncate ==
    (PromptSplitCall /\ cpc = "returned") =>
        result[1].choices =
            ExpectedSplitChoices(Segments(AllText(tasks[1].value), opts.promptSplitDelimiter),
                                 EffectiveN(legacyReq))

\* The delimiter neither starts nor ends with white space (the default
\* delimiter apart, which is white space only).
UnpaddedDelimiter ==
    \/ opts.promptSplitDelimiter = DefaultDelimiter
    \/ /\ ~IsSpace(Head(opts.promptSplitDelimiter))
       /\ ~IsSpace(opts.promptSplitDelimiter[Len(opts.promptSplitDelimiter)])

\* The statement of C10 for the default delimiter and for delimiters without
\* leading or trailing white space: there the code does what C10 says.
SplitPadTruncateUnpadded ==
    (PromptSplitCall /\ cpc = "returned" /\ UnpaddedDelimiter) =>
        result[1].choices =
            ExpectedSplitChoices(Segments(AllText(tasks[1].value), opts.promptSplitDelimiter),
                                 EffectiveN(legacyReq))

-----------------------------------------------------------------------------
(* Properties of completionRequestToResponses, checked under CompletionSpec. *)

\* The legacy fields with a backend counterpart, each with its counterpart's name.
Counterparts ==
    { <<"messages", "input">>, <<"max_tokens", "max_output_tokens">>,
      <<"temperature", "temperature">>, <<"top_p", "top_p">>, <<"stop", "stop">>,
      <<"presence_penalty", "presence_penalty">>, <<"frequency_penalty", "frequency_penalty">> }

\* The field f of a legacy request as an optional value; messages is required.
LegacyField(req, f) == IF f = "messages" THEN Some(req[f]) ELSE req[f]

\* The legacy request the call translated: the combined-prompt request on the
\* prompt-split path, the caller's request otherwise (n apart, which has no
\* counterpart).
TranslatedLegacyRequest ==
    IF Path(opts, legacyReq) = "prompt_split"
    THEN PromptSplitRequest(opts, legacyReq, EffectiveN(legacyReq))
    ELSE legacyReq

\* A legacy field that holds a value: neither undefined nor null.
HoldsValue(f) == f # None /\ f # NullOpt

\* C11 (as claimed): every request handed to the backend carries each legacy
\* field that holds a value under its counterpart's name with the original
\* value, no key of it holds an absent (null or undefined) value, and it has
\* no metadata key.
C11_NoAbsentValueInTranslatedRequest ==
    \A i \in 1..Len(sent) :
        /\ \A pair \in Counterparts :
              HoldsValue(LegacyField(TranslatedLegacyRequest, pair[1])) =>
                  /\ pair[2] \in DOMAIN sent[i]
                  /\ sent[i][pair[2]] = LegacyField(TranslatedLegacyRequest, pair[1])
        /\ \A k \in DOMAIN sent[i] : HoldsValue(sent[i][k])
        /\ "metadata" \notin DOMAIN sent[i]

\* No optional field of the legacy request holds null.
NoNullField(req) == \A pair \in Counterparts : LegacyField(req, pair[1]) # NullOpt

\* The statement of C11 for legacy requests without null fields: there the
\* code does what C11 says, and a field that is undefined has no key.
NoAbsentValueWithoutNullFields ==
    NoNullField(legacyReq) =>
        \A i \in 1..Len(sent) :
            /\ \A pair \in Counterparts :
                  IF HoldsValue(LegacyField(TranslatedLegacyRequest, pair[1]))
                  THEN /\ pair[2] \in DOMAIN sent[i]
                       /\ sent[i][pair[2]] = LegacyField(TranslatedLegacyRequest, pair[1])
                  ELSE pair[2] \notin DOMAIN sent[i]
            /\ \A k \in DOMAIN sent[i] : HoldsValue(sent[i][k])
            /\ DOMAIN sent[i] \subseteq {"model"} \cup { pair[2] : pair \in Counterparts }

-----------------------------------------------------------------------------
(* Properties of responsesToCompletion, checked under FlattenSpec. *)

\* C12 (as claimed): the results of flattening one backend response at any
\* clock readings are structurally equal, for every response, one without a
\* creation time included.
C12_FlattenTwiceEqual ==
    \A i, j \in 1..Len(flat.results) : flat.results[i].legacy = flat.results[j].legacy

\* C12 (amended): the results of flattening one backend response at any clock
\* readings agree in every field but created.  When the response carries a
\* non-zero creation time, created is that time and the results are equal;
\* when it carries none (or zero), created of each result is the clock reading
\* of its own application, so the results are equal exactly when the two
\* readings are.
C12_FlattenTwiceEqualButCreated ==
    \A i, j \in 1..Len(flat.results) :
        LET a == flat.results[i]
            b == flat.results[j]
        IN  /\ [ a.legacy EXCEPT !.created = 0 ] = [ b.legacy EXCEPT !.created = 0 ]
            /\ IF flat.input.created \in {None, Some(0)}
               THEN /\ a.legacy.created = a.at
                    /\ b.legacy.created = b.at
                    /\ (a.legacy = b.legacy) <=> (a.at = b.at)
               ELSE /\ a.legacy.created = flat.input.created[1]
                    /\ a.legacy = b.legacy

\* C12 witness: a response without creation time and with a text, flattened
\* at two different clock readings, gives two results that differ.
C12_Witness ==
    /\ Len(flat.results) = 2
    /\ flat.input.created = None
    /\ flat.results[1].at # flat.results[2].at
    /\ flat.results[1].legacy.choices[1].text = <<"a">>
    /\ flat.results[1].legacy # flat.results[2].legacy

-----------------------------------------------------------------------------
(* Properties of an aborted stream, checked under StreamSpec and StreamFairSpec. *)

\* C13 (as claimed): a stream whose abort handle was invoked while it was in
\* flight ends by running the code after the loop (the "stream ended without
\* completed event" path when no completed event was read), and the abort
\* surfaces no error.
C13_AbortReachesEndOfStreamPath ==
    (spc = "done" /\ aborted) =>
        /\ endCause = "exhausted"
        /\ \A i \in 1..Len(emitted) :
              ~(IsOnError(emitted[i]) /\ emitted[i].arg = ThrownError(TRUE))

\* The part of C13 about termination: an aborted stream eventually ends.
AbortedStreamTerminates == aborted ~> (spc = "done")

\* The part of C13 about emitted chunks: what was emitted stays emitted, and
\* an ended stream emits nothing more.
EmittedNotRetracted ==
    [][ /\ Len(emitted') >= Len(emitted)
        /\ SubSeq(emitted', 1, Len(emitted)) = emitted
        /\ (spc = "done" => emitted' = emitted) ]_vars

-----------------------------------------------------------------------------
(* Properties of createCompletionStream called with a request alone, checked  *)
(* under IterateSpec.                                                         *)

\* C14 (as claimed): the value returned by a call without handlers is a lazy
\* sequence of the stream's chunks: iterating it raises no error, the
\* consuming loop does not crash, and once the stream has ended the caller
\* who iterated has pulled one chunk per delta event.
C14_ReturnedValueYieldsChunks ==
    /\ caller.thrown = None
    /\ endCause # "crashed"
    /\ (caller.pc # "holding" /\ spc = "done") =>
           caller.pulled = [ i \in 1..Len(ConsumedDeltas) |-> ExpectedChunk(ConsumedDeltas[i]).arg ]

-----------------------------------------------------------------------------
(* Properties of concurrent calls, checked under ConcurrentSpec. *)

\* The deltas of the delta events a call has read, in arrival order.
OwnDeltas(call) ==
    LET ds == SelectSeq(call.consumed, IsDelta) IN [ i \in 1..Len(ds) |-> ds[i].delta ]

\* The response of the last completed event a call has read, if any.
OwnCompleted(call) ==
    LET cs == SelectSeq(call.consumed, IsCompleted)
    IN  IF cs = <<>> THEN None ELSE Some(cs[Len(cs)].response)

\* C15: under every interleaving of the steps of two streams and a
\* createCompletion call on one adapter, what each stream holds and emits is
\* determined by its own events: its accumulated text is the concatenation of
\* its own deltas, its chunks are those of its own deltas, its recorded final
\* response is the one of its own last completed event, and its final record
\* carries its own text, its own final response's id and its own request's or
\* response's model; the createCompletion call returns the flattening of its
\* own backend response.
C15_CallsShareNoState ==
    /\ \A id \in StreamIds :
          LET call   == calls[id]
              ds     == OwnDeltas(call)
              final  == OwnCompleted(call)
              chunks == SelectSeq(call.emitted, IsOnDelta)
              dones  == SelectSeq(call.emitted, IsOnDone)
          IN  /\ call.fullText = Concat(ds)
              /\ chunks = [ i \in 1..Len(ds) |-> ExpectedChunk(ds[i]) ]
              /\ call.finalResponse = final
              /\ Len(dones) = IF call.endCause = "exhausted" /\ (final # None \/ Concat(ds) # <<>>)
                              THEN 1 ELSE 0
              /\ \A i \in 1..Len(dones) :
                    /\ dones[i].arg.choices[1].text = Concat(ds)
                    /\ dones[i].arg.id = IF final = None THEN "unknown" ELSE final[1].id
                    /\ dones[i].arg.model = IF final = None THEN call.req.model ELSE final[1].model
    /\ cpc = "returned" =>
          /\ result[1].id = tasks[1].value.id
          /\ result[1].choices[1].text = AllText(tasks[1].value)

\* C15 witness: the first stream has ended with the text "ab" and a synthetic
\* final record while the second, having read "b" and a completed event, is
\* still in flight, and the createCompletion call has returned.
C15_Witness ==
    /\ calls[1].pc = "done"
    /\ calls[1].endCause = "exhausted"
    /\ calls[1].fullText = <<"a", "b">>
    /\ calls[1].finalResponse = None
    /\ calls[2].pc = "loop"
    /\ calls[2].fullText = <<"b">>
    /\ calls[2].finalResponse # None
    /\ cpc = "returned"

-----------------------------------------------------------------------------
(* Properties of the dispatch of createCompletion, checked under CompletionSpec. *)

\* The number of create calls the contract fixes for the call: n under the
\* parallel strategy with n > 1, one otherwise.
ExpectedCalls ==
    IF opts.multiStrategy = "parallel" /\ EffectiveN(legacyReq) > 1
    THEN EffectiveN(legacyReq) ELSE 1

\* C16 (as claimed): from its dispatch on, a call with n absent or n >= 0 has
\* issued exactly one create call when n <= 1, under first_only or under an
\* unrecognized strategy, exactly n under parallel with n > 1, exactly one
\* under prompt_split with n > 1: all of them before any result is awaited,
\* and none is added later.
C16_CallCountFixed ==
    (cpc # "idle" /\ EffectiveN(legacyReq) >= 0) =>
        /\ Len(sent) = ExpectedCalls
        /\ Len(tasks) = Len(sent)

\* The statement of C16 for n absent or n >= 1: there the code does what C16 says.
CallCountFixedForPositiveN ==
    (cpc # "idle" /\ EffectiveN(legacyReq) >= 1) =>
        /\ Len(sent) = ExpectedCalls
        /\ Len(tasks) = Len(sent)

\* The part of C16 about retries: after the dispatch no create call is issued.
NoCallAfterDispatch == [][cpc # "idle" => sent' = sent]_vars

-----------------------------------------------------------------------------
(* Properties of the accumulated text and of the end of a stream, checked     *)
(* under StreamSpec.                                                          *)

IsPrefix(a, b) == Len(a) <= Len(b) /\ SubSeq(b, 1, Len(a)) = a

\* The step reads an event that is no delta event.
ReadsNonDelta == consumed' # consumed /\ ~IsDelta(consumed'[Len(consumed')])

\* The step reads an item-added, text-segment-done or completed event.
ReadsSilentEvent ==
    /\ ReadsNonDelta
    /\ consumed'[Len(consumed')].type \in {ItemAddedType, TextDoneType, CompletedType}

\* C17: before and after every step of a stream the accumulated text is the
\* concatenation, in arrival order, of the deltas of the delta events read so
\* far; every step extends it (the earlier text is a prefix of the later);
\* a step that reads an event other than a delta leaves it as it is and emits
\* no chunk, and a step that reads an item-added, text-segment-done or
\* completed event emits nothing at all.
C17_TextIsConcatOfDeltasRead ==
    [][ /\ fullText = Concat(ConsumedDeltas)
        /\ fullText' = Concat(ConsumedDeltas')
        /\ IsPrefix(fullText, fullText')
        /\ ReadsNonDelta =>
              /\ fullText' = fullText
              /\ SelectSeq(emitted', IsOnDelta) = SelectSeq(emitted, IsOnDelta)
        /\ ReadsSilentEvent => emitted' = emitted ]_vars

\* C17 witness: the deltas "b" and "a" were read with a text-segment-done
\* event between them and a completed event after them, and the accumulated
\* text is "ba".
C17_Witness ==
    /\ Len(consumed) = 4
    /\ IsDelta(consumed[1]) /\ consumed[1].delta = <<"b">>
    /\ consumed[2].type = TextDoneType
    /\ IsDelta(consumed[3]) /\ consumed[3].delta = <<"a">>
    /\ IsCompleted(consumed[4])
    /\ fullText = <<"b", "a">>
    /\ Len(emitted) = 2

\* No completed and no failed event was read.
NoCompletedNoFailed ==
    \A i \in 1..Len(consumed) : ~IsCompleted(consumed[i]) /\ ~IsFailed(consumed[i])

\* C18: a stream whose upstream ended (without throwing) after no completed
\* and no failed event, with no text accumulated, has delivered no final
\* record and no error value: what it emitted are the chunks of the (empty)
\* deltas it read, and nothing else.
C18_EmptyEndEmitsNothingFurther ==
    (spc = "done" /\ endCause = "exhausted" /\ NoCompletedNoFailed /\ fullText = <<>>) =>
        /\ \A i \in 1..Len(emitted) : ~IsOnDone(emitted[i]) /\ ~IsOnError(emitted[i])
        /\ emitted = [ i \in 1..Len(ConsumedDeltas) |-> ExpectedChunk(ConsumedDeltas[i]) ]

\* C18 witness: an item-added event, an empty delta and a text-segment-done
\* event were read, the upstream ended, and the one chunk of the empty delta
\* is all that was emitted.
C18_Witness ==
    /\ spc = "done"
    /\ endCause = "exhausted"
    /\ ~aborted
    /\ Len(consumed) = 3
    /\ consumed[1].type = ItemAddedType
    /\ IsDelta(consumed[2]) /\ consumed[2].delta = <<>>
    /\ consumed[3].type = TextDoneType
    /\ fullText = <<>>
    /\ Len(emitted) = 1

\* The handler invocations that report what the iteration threw.
ThrownReports ==
    SelectSeq(emitted, LAMBDA c : IsOnError(c) /\ c.arg = ThrownError(aborted))

====
